---- MODULE Spec2Model ----
(***************************************************************************)
(* A model of the YouTrack REST client (src/src/youtrack/client.py).       *)
(*                                                                         *)
(* One client instance (token, base_url) is used by one synchronous        *)
(* caller.  An operation builds one request, hands it to the HTTP layer    *)
(* and blocks (pc = "waiting"); the HTTP layer then either fails           *)
(* (transport error) or delivers a response, which the operation funnels   *)
(* through _handle_response and, for two operations, post-processes.       *)
(*                                                                         *)
(* Strings are TLA+ strings; URLs, header values and error messages are    *)
(* built with \o exactly as the f-strings of the source build them.        *)
(* JSON values are tagged records of one uniform shape, see JStr .. JObj.  *)
(***************************************************************************)
EXTENDS Integers, Sequences, FiniteSets, TLC

VARIABLES
    token,      \* self.token
    base_url,   \* self.base_url
    ctor,       \* the arguments __init__ was called with
    pc,         \* "idle"; "waiting": blocked in requests.get/post/put; "done"
    op,         \* name of the operation invoked last
    args,       \* its arguments
    wire,       \* the HTTP requests issued by the invocation, in order
    received,   \* the response the HTTP layer delivered to it, if any
    failure,    \* the error the HTTP layer raised instead, "" if none
    normalized, \* whether the invocation has entered _handle_response
    outcome,    \* what the invocation returned or raised
    loaded,     \* what the last YouTrackClient.from_config call produced
    past,       \* what the client has been through: "fresh", "used", "failed"
    peer        \* a second caller, or a second client with its caller

vars == <<token, base_url, ctor, pc, op, args, wire, received, failure,
          normalized, outcome, loaded, past, peer>>

----------------------------------------------------------------------------
(* Bounds of the model.                                                    *)

\* longest workitem list the server returns
MaxItems == 3
\* longest board list the server returns
MaxBoards == 2

----------------------------------------------------------------------------
(* Python values.  None is the empty tuple, a supplied value x is <<x>>.   *)

None == <<>>
Some(x) == <<x>>
IsNone(o) == o = <<>>
Val(o) == o[1]

(* JSON values, as json.loads / response.json() decode them.               *)
JStr(x)  == [t |-> "str",  s |-> x,  n |-> 0, a |-> <<>>]
JNum(k)  == [t |-> "num",  s |-> "", n |-> k, a |-> <<>>]
JNull    == [t |-> "null", s |-> "", n |-> 0, a |-> <<>>]
JTrue    == [t |-> "true", s |-> "", n |-> 0, a |-> <<>>]
JFalse   == [t |-> "false", s |-> "", n |-> 0, a |-> <<>>]
\* a list: a is the sequence of its elements
JArr(xs) == [t |-> "arr",  s |-> "", n |-> 0, a |-> xs]
\* a dict: a is the sequence of its items [k |-> key, v |-> value], in order
JObj(kv) == [t |-> "obj",  s |-> "", n |-> 0, a |-> kv]
Item(key, value) == [k |-> key, v |-> value]

HasKey(d, key) == \E i \in 1..Len(d.a) : d.a[i].k = key

\* d[key] of a dict that has the key
Lookup(d, key) == d.a[CHOOSE i \in 1..Len(d.a) : d.a[i].k = key].v

\* dict.get(key): the value, or None (decoded null and None are one value)
Get(d, key) == IF HasKey(d, key) THEN Lookup(d, key) ELSE JNull

\* dict.get(key, default)
GetOr(d, key, default) == IF HasKey(d, key) THEN Lookup(d, key) ELSE default

\* bool(x) of a decoded value
Truthy(j) ==
    CASE j.t = "str"   -> j.s # ""
      [] j.t = "num"   -> j.n # 0
      [] j.t = "null"  -> FALSE
      [] j.t = "true"  -> TRUE
      [] j.t = "false" -> FALSE
      [] j.t = "arr"   -> Len(j.a) > 0
      [] j.t = "obj"   -> Len(j.a) > 0

RECURSIVE JoinWith(_, _)
\* sep.join(parts)
JoinWith(parts, sep) ==
    IF Len(parts) = 0 THEN ""
    ELSE IF Len(parts) = 1 THEN parts[1]
    ELSE parts[1] \o sep \o JoinWith(Tail(parts), sep)

RECURSIVE PyRepr(_)
\* repr(x) of a decoded value, as str() of a dict or list shows its members
PyRepr(j) ==
    CASE j.t = "str"   -> "'" \o j.s \o "'"
      [] j.t = "num"   -> ToString(j.n)
      [] j.t = "null"  -> "None"
      [] j.t = "true"  -> "True"
      [] j.t = "false" -> "False"
      [] j.t = "arr"   ->
            "[" \o JoinWith([i \in 1..Len(j.a) |-> PyRepr(j.a[i])], ", ") \o "]"
      [] j.t = "obj"   ->
            "{" \o JoinWith([i \in 1..Len(j.a) |->
                        "'" \o j.a[i].k \o "': " \o PyRepr(j.a[i].v)], ", ") \o "}"

\* str(x), which is also how an f-string formats x
PyStr(j) == IF j.t = "str" THEN j.s ELSE PyRepr(j)

RECURSIVE JsonText(_)
\* the body text of a response whose body is the JSON document j
JsonText(j) ==
    CASE j.t = "str"   -> "\"" \o j.s \o "\""
      [] j.t = "num"   -> ToString(j.n)
      [] j.t = "null"  -> "null"
      [] j.t = "true"  -> "true"
      [] j.t = "false" -> "false"
      [] j.t = "arr"   ->
            "[" \o JoinWith([i \in 1..Len(j.a) |-> JsonText(j.a[i])], ",") \o "]"
      [] j.t = "obj"   ->
            "{" \o JoinWith([i \in 1..Len(j.a) |->
                        "\"" \o j.a[i].k \o "\":" \o JsonText(j.a[i].v)], ",") \o "}"

\* sub in s, for strings
Contains(s, sub) ==
    \E i \in 1..(Len(s) - Len(sub) + 1) : SubSeq(s, i, i + Len(sub) - 1) = sub

----------------------------------------------------------------------------
(* Outcomes of a call, and responses of the HTTP layer.                    *)

NoOutcome     == [kind |-> "none",   val |-> JNull, exc |-> "", msg |-> ""]
Return(v)     == [kind |-> "return", val |-> v,     exc |-> "", msg |-> ""]
Raise(e, m)   == [kind |-> "raise",  val |-> JNull, exc |-> e,  msg |-> m]

\* a response whose body is the JSON document j
JsonResponse(st, j) ==
    [status |-> st, text |-> JsonText(j), decodable |-> TRUE, decoded |-> j]
\* a response whose body is text that is no JSON document
TextResponse(st, txt) ==
    [status |-> st, text |-> txt, decodable |-> FALSE, decoded |-> JNull]

\* a request handed to requests.get / requests.post / requests.put
Request(method, url, headers, json, files) ==
    [method |-> method, url |-> url, headers |-> headers,
     json |-> json, files |-> files]

----------------------------------------------------------------------------
(* YouTrackClient: headers and response normalization.                     *)

\* the Authorization header without its scheme
_headers_without_scheme ==
    ("Authorization" :> token)
        @@ ("Accept" :> "application/json")
        @@ ("Content-Type" :> "application/json")

\* YouTrackClient._headers
_headers ==
    ("Authorization" :> ("Bearer " \o token))
        @@ ("Accept" :> "application/json")
        @@ ("Content-Type" :> "application/json")

\* a status check that lets 400 itself through
raise_for_status_above_400(response) ==
    400 < response.status /\ response.status < 600

\* response.raise_for_status() raises HTTPError for a 4xx or 5xx status
raise_for_status(response) == 400 <= response.status /\ response.status < 600

\* the extraction with message tried before error_description
error_message_message_first(response) ==
    IF ~response.decodable
    THEN response.text
    ELSE LET error == response.decoded IN
         IF error.t # "obj"
         THEN response.text
         ELSE LET d == Get(error, "error_description")
                  m == Get(error, "message")
              IN  IF Truthy(m) THEN PyStr(m)
                  ELSE IF Truthy(d) THEN PyStr(d)
                  ELSE PyRepr(error)

\* the extraction without the raw-text fallback of the except branch
error_message_no_text_fallback(response) ==
    IF ~response.decodable
    THEN "Unknown error"
    ELSE LET error == response.decoded IN
         IF error.t # "obj"
         THEN response.text
         ELSE LET d == Get(error, "error_description")
                  m == Get(error, "message")
              IN  IF Truthy(d) THEN PyStr(d)
                  ELSE IF Truthy(m) THEN PyStr(m)
                  ELSE PyRepr(error)

\* the message _handle_response extracts from an error response
error_message(response) ==
    IF ~response.decodable
    THEN response.text                      \* json() raised: except Exception
    ELSE LET error == response.decoded IN
         IF error.t # "obj"
         THEN response.text                 \* no .get: AttributeError, caught
         ELSE LET d == Get(error, "error_description")
                  m == Get(error, "message")
              IN  IF Truthy(d) THEN PyStr(d)
                  ELSE IF Truthy(m) THEN PyStr(m)
                  ELSE PyRepr(error)                  \* str(error)

\* a normalization that returns the body text instead of the decoded body
_handle_response_returning_text(response) ==
    IF raise_for_status(response)
    THEN Raise("YouTrackError", "YouTrack API error: " \o error_message(response))
    ELSE Return(JStr(response.text))

\* YouTrackClient._handle_response
_handle_response(response) ==
    IF raise_for_status(response)
    THEN Raise("YouTrackError", "YouTrack API error: " \o error_message(response))
    ELSE IF response.decodable
         THEN Return(response.decoded)
         ELSE Raise("JSONDecodeError", "")

----------------------------------------------------------------------------
(* What Python iterates over: the members of a list, the keys of a dict,   *)
(* the characters of a string; nothing else is iterable.                   *)

Iterable(j) == j.t \in {"arr", "obj", "str"}

Elements(j) ==
    CASE j.t = "arr" -> j.a
      [] j.t = "obj" -> [i \in 1..Len(j.a) |-> JStr(j.a[i].k)]
      [] j.t = "str" -> [i \in 1..Len(j.s) |-> JStr(SubSeq(j.s, i, i))]

\* int + x is defined for numbers (bool is a number in Python)
IsNumber(j) == j.t \in {"num", "true", "false"}
NumberOf(j) == IF j.t = "num" THEN j.n ELSE IF j.t = "true" THEN 1 ELSE 0

RECURSIVE sum_durations_subscript(_, _)
\* the sum with wi['duration'] in place of wi.get('duration', 0)
sum_durations_subscript(workitems, total) ==
    IF Len(workitems) = 0 THEN Return(JNum(total))
    ELSE LET wi == Head(workitems) IN
         IF wi.t # "obj" THEN Raise("TypeError", "")
         ELSE IF ~HasKey(wi, "duration") THEN Raise("KeyError", "")
         ELSE LET d == Lookup(wi, "duration") IN
              IF IsNumber(d)
              THEN sum_durations_subscript(Tail(workitems), total + NumberOf(d))
              ELSE Raise("TypeError", "")

RECURSIVE sum_durations(_, _)
\* sum(wi.get('duration', 0) for wi in workitems), from the running total
sum_durations(workitems, total) ==
    IF Len(workitems) = 0 THEN Return(JNum(total))
    ELSE LET wi == Head(workitems) IN
         IF wi.t # "obj" THEN Raise("AttributeError", "")
         ELSE LET d == GetOr(wi, "duration", JNum(0)) IN
              IF IsNumber(d)
              THEN sum_durations(Tail(workitems), total + NumberOf(d))
              ELSE Raise("TypeError", "")

\* the part of calculate_time_spent after _handle_response returned
time_spent_total(workitems) ==
    IF Iterable(workitems)
    THEN sum_durations(Elements(workitems), 0)
    ELSE Raise("TypeError", "")

RECURSIVE any_project(_, _)
\* any(p['id'] == project_id for p in projects): "yes", "no", or the error
any_project(projects, project_id) ==
    IF Len(projects) = 0 THEN "no"
    ELSE LET p == Head(projects) IN
         IF p.t # "obj" THEN "TypeError"
         ELSE IF ~HasKey(p, "id") THEN "KeyError"
         ELSE IF Lookup(p, "id") = JStr(project_id) THEN "yes"
         ELSE any_project(Tail(projects), project_id)

\* the filter looking at the first project of a board only
board_matches_first_project(b, project_id) ==
    IF b.t # "obj" THEN "AttributeError"
    ELSE LET projects == GetOr(b, "projects", JArr(<<>>)) IN
         IF Iterable(projects)
         THEN any_project(IF Len(Elements(projects)) = 0 THEN <<>>
                          ELSE <<Head(Elements(projects))>>, project_id)
         ELSE "TypeError"

\* whether the comprehension keeps board b: "yes", "no", or the error
board_matches(b, project_id) ==
    IF b.t # "obj" THEN "AttributeError"
    ELSE LET projects == GetOr(b, "projects", JArr(<<>>)) IN
         IF Iterable(projects)
         THEN any_project(Elements(projects), project_id)
         ELSE "TypeError"

RECURSIVE filter_boards(_, _, _)
\* [b for b in boards if any(...)], from the boards kept so far
filter_boards(boards, project_id, kept) ==
    IF Len(boards) = 0 THEN Return(JArr(kept))
    ELSE LET r == board_matches(Head(boards), project_id) IN
         IF r = "yes"
         THEN filter_boards(Tail(boards), project_id, Append(kept, Head(boards)))
         ELSE IF r = "no"
         THEN filter_boards(Tail(boards), project_id, kept)
         ELSE Raise(r, "")

\* the part of list_boards after _handle_response returned
boards_result(boards, project_id) ==
    IF IsNone(project_id) \/ Val(project_id) = ""      \* if project_id:
    THEN Return(boards)
    ELSE IF Iterable(boards)
         THEN filter_boards(Elements(boards), Val(project_id), <<>>)
         ELSE Raise("TypeError", "")

----------------------------------------------------------------------------
(* Python dicts as item sequences.                                         *)

\* d[key] = value: replaces the value of an existing key, else appends
DictSet(items, key, value) ==
    IF \E i \in 1..Len(items) : items[i].k = key
    THEN [i \in 1..Len(items) |->
            IF items[i].k = key THEN Item(key, value) ELSE items[i]]
    ELSE Append(items, Item(key, value))

RECURSIVE DictUpdate(_, _)
\* {**d, **other}
DictUpdate(items, other) ==
    IF Len(other) = 0 THEN items
    ELSE DictUpdate(DictSet(items, Head(other).k, Head(other).v), Tail(other))

----------------------------------------------------------------------------
(* The inputs the caller and the server draw from.                         *)

Tokens      == {"abc", "dummy"}
BaseUrls    == {"https://yt"}
IssueIds    == {"I-1"}
ProjectIds  == {"P1", "P2"}
BoardIds    == {"B1"}
SprintIds   == {"S1"}
Queries     == {"", "state: Open"}
Limits      == {20}
Skips       == {0, 5}
Strings     == {"", "text"}
\* a str parameter whose default is None: not passed, or passed
OptStrings  == {None} \cup {Some(x) : x \in Strings}
StoryPoints == {None, Some(0), Some(5)}
\* custom_fields: None, or a dict from field names to plain or structured values
CustomFields ==
    { None,
      Some(<<>>),
      Some(<<Item("Priority", JStr("High"))>>),
      Some(<<Item("State", JObj(<<Item("value", JObj(<<Item("name", JStr("Open"))>>))>>))>>),
      Some(<<Item("Story points", JNum(8)), Item("Priority", JStr("High"))>>) }
FilePaths   == {"a.txt"}
FieldSets   == {"id,summary,description", "id"}

\* errors the HTTP layer raises instead of delivering a response
TransportErrors == {"ConnectionError", "Timeout"}

\* configuration files: absent, not TOML, or a TOML document
ConfigPaths == {None, Some(""), Some("yt.toml")}
ConfigFiles ==
    {[exists |-> FALSE, toml |-> FALSE, section |-> FALSE, keys |-> <<>>],
     [exists |-> TRUE,  toml |-> FALSE, section |-> FALSE, keys |-> <<>>],
     [exists |-> TRUE,  toml |-> TRUE,  section |-> FALSE, keys |-> <<>>]}
    \cup {[exists |-> TRUE, toml |-> TRUE, section |-> TRUE, keys |-> k] :
            k \in {<<>>,
                   <<Item("token", "abc")>>,
                   <<Item("base_url", "https://yt")>>,
                   <<Item("token", "abc"), Item("base_url", "https://yt")>>,
                   <<Item("base_url", "https://other"), Item("token", "t2")>>}}

----------------------------------------------------------------------------
(* YouTrackClient.__init__ and YouTrackClient.from_config.                 *)

\* the fields __init__ sets
__init__(t, u) == [token |-> t, base_url |-> u]

HOME_CONFIG == "~/.youtrack.toml"

\* config_path or str(Path.home() / ".youtrack.toml")
config_file(config_path) ==
    IF IsNone(config_path) \/ Val(config_path) = ""
    THEN HOME_CONFIG ELSE Val(config_path)

NotLoaded == [kind |-> "none", exc |-> "", path |-> "", client |-> __init__("", "")]

\* what from_config(config_path) yields when the file at the path is f
load_config(config_path, f) ==
    LET path == config_file(config_path)
        failed(e) == [kind |-> "raise", exc |-> e, path |-> path,
                      client |-> __init__("", "")]
        has(key) == \E i \in 1..Len(f.keys) : f.keys[i].k = key
        at(key)  == f.keys[CHOOSE i \in 1..Len(f.keys) : f.keys[i].k = key].v
    IN  IF ~f.exists THEN failed("FileNotFoundError")          \* toml.load
        ELSE IF ~f.toml THEN failed("TomlDecodeError")         \* toml.load
        ELSE IF ~f.section THEN failed("KeyError")             \* config["youtrack"]
        ELSE IF ~has("token") THEN failed("KeyError")          \* ["token"]
        ELSE IF ~has("base_url") THEN failed("KeyError")       \* ["base_url"]
        ELSE [kind |-> "return", exc |-> "", path |-> path,
              client |-> __init__(at("token"), at("base_url"))]

----------------------------------------------------------------------------
(* The operations of YouTrackClient.  Each builds its URL and payload,     *)
(* issues its request and blocks until the HTTP layer answers.             *)

NoArgs == [none |-> TRUE]

\* a client that, once a call has failed, sends no Authorization header
Invoke_after_failure(o, a, r) ==
    /\ pc = "idle"
    /\ pc' = "waiting"
    /\ op' = o
    /\ args' = a
    /\ wire' = <<IF past = "failed" THEN [r EXCEPT !.headers = ("Accept" :> "application/json")] ELSE r>>
    /\ UNCHANGED <<token, base_url, ctor, outcome, received, failure,
                   normalized, loaded, past, peer>>

\* requests.get / requests.post / requests.put is entered with request r
Invoke(o, a, r) ==
    /\ pc = "idle"
    /\ pc' = "waiting"
    /\ op' = o
    /\ args' = a
    /\ wire' = <<r>>
    /\ UNCHANGED <<token, base_url, ctor, outcome, received, failure,
                   normalized, loaded, past, peer>>

\* custom_fields.copy() if custom_fields else {}
copy_or_empty(custom_fields) ==
    IF IsNone(custom_fields) THEN <<>> ELSE Val(custom_fields)

\* the name/value entry create_issue stores for story_points
story_points_entry(story_points) ==
    JObj(<<Item("name", JStr(ToString(story_points))),
           Item("value", JNum(story_points))>>)

\* the merge with `if story_points:` as the test
merged_custom_fields_if_truthy(custom_fields, story_points) ==
    IF IsNone(story_points) \/ Val(story_points) = 0
    THEN copy_or_empty(custom_fields)
    ELSE DictSet(copy_or_empty(custom_fields), "Story points",
                 story_points_entry(Val(story_points)))

\* custom_fields after the story_points merge of create_issue
merged_custom_fields(custom_fields, story_points) ==
    IF IsNone(story_points)
    THEN copy_or_empty(custom_fields)
    ELSE DictSet(copy_or_empty(custom_fields), "Story points",
                 story_points_entry(Val(story_points)))

\* {"name": k, **(v if isinstance(v, dict) else {"value": v})}
custom_field_entry(k, v) ==
    JObj(DictUpdate(<<Item("name", JStr(k))>>,
                    IF v.t = "obj" THEN v.a ELSE <<Item("value", v)>>))

\* the JSON payload of create_issue
create_issue_data(project_id, summary, description, custom_fields, story_points) ==
    LET cf == merged_custom_fields(custom_fields, story_points)
        data == <<Item("project", JObj(<<Item("id", JStr(project_id))>>)),
                  Item("summary", JStr(summary)),
                  Item("description", JStr(description))>>
    IN  JObj(IF Len(cf) > 0                                 \* if custom_fields:
             THEN Append(data, Item("customFields",
                    JArr([i \in 1..Len(cf) |-> custom_field_entry(cf[i].k, cf[i].v)])))
             ELSE data)

\* YouTrackClient.create_issue; description not passed takes the default ""
create_issue ==
    \E project_id \in {"P1"}, summary \in {"Bug"},
       description \in OptStrings,
       custom_fields \in CustomFields,
       story_points \in StoryPoints :
        Invoke("create_issue",
            [project_id |-> project_id, summary |-> summary,
             description |-> description, custom_fields |-> custom_fields,
             story_points |-> story_points],
            Request("POST",
                base_url \o "/api/issues?fields=id,summary,description",
                _headers,
                Some(create_issue_data(project_id, summary,
                        IF IsNone(description) THEN "" ELSE Val(description),
                        custom_fields, story_points)),
                None))

\* the payload with `if summary:` and `if description:` as the tests
update_issue_data_if_truthy(summary, description, custom_fields) ==
    LET d1 == IF IsNone(summary) \/ Val(summary) = "" THEN <<>>
              ELSE <<Item("summary", JStr(Val(summary)))>>
        d2 == IF IsNone(description) \/ Val(description) = "" THEN d1
              ELSE Append(d1, Item("description", JStr(Val(description))))
        d3 == IF IsNone(custom_fields) \/ Len(Val(custom_fields)) = 0
              THEN d2
              ELSE Append(d2, Item("customFields", JObj(Val(custom_fields))))
    IN  JObj(d3)

\* the JSON payload of update_issue
update_issue_data(summary, description, custom_fields) ==
    LET d1 == IF IsNone(summary) THEN <<>>
              ELSE <<Item("summary", JStr(Val(summary)))>>
        d2 == IF IsNone(description) THEN d1
              ELSE Append(d1, Item("description", JStr(Val(description))))
        d3 == IF IsNone(custom_fields) \/ Len(Val(custom_fields)) = 0
              THEN d2                                       \* if custom_fields:
              ELSE Append(d2, Item("customFields", JObj(Val(custom_fields))))
    IN  JObj(d3)

\* YouTrackClient.update_issue
update_issue ==
    \E issue_id \in IssueIds, summary \in OptStrings, description \in OptStrings,
       custom_fields \in CustomFields :
        Invoke("update_issue",
            [issue_id |-> issue_id, summary |-> summary,
             description |-> description, custom_fields |-> custom_fields],
            Request("POST",
                base_url \o "/api/issues/" \o issue_id
                    \o "?fields=id,summary,description",
                _headers,
                Some(update_issue_data(summary, description, custom_fields)),
                None))

\* the payload with `if comment is not None:` as the test
run_command_data_is_not_none(command, comment) ==
    JObj(IF IsNone(comment)
         THEN <<Item("query", JStr(command))>>
         ELSE <<Item("query", JStr(command)),
                Item("comment", JObj(<<Item("text", JStr(Val(comment)))>>))>>)

\* the JSON payload of run_command
run_command_data(command, comment) ==
    JObj(IF IsNone(comment) \/ Val(comment) = ""           \* if comment:
         THEN <<Item("query", JStr(command))>>
         ELSE <<Item("query", JStr(command)),
                Item("comment", JObj(<<Item("text", JStr(Val(comment)))>>))>>)

\* YouTrackClient.run_command
run_command ==
    \E issue_id \in IssueIds, command \in {"state Fixed"}, comment \in OptStrings :
        Invoke("run_command",
            [issue_id |-> issue_id, command |-> command, comment |-> comment],
            Request("POST",
                base_url \o "/api/issues/" \o issue_id \o "/execute",
                _headers, Some(run_command_data(command, comment)), None))

\* YouTrackClient.attach_file: open() fails before any request is built
attach_file ==
    \E issue_id \in IssueIds, file_path \in FilePaths, readable \in BOOLEAN :
        IF readable
        THEN Invoke("attach_file",
                [issue_id |-> issue_id, file_path |-> file_path, readable |-> TRUE],
                Request("POST",
                    base_url \o "/api/issues/" \o issue_id
                        \o "/attachments?fields=id,name",
                    "Authorization" :> ("Bearer " \o token),
                    None, Some(file_path)))
        ELSE /\ pc = "idle"
             /\ pc' = "done"
             /\ op' = "attach_file"
             /\ args' = [issue_id |-> issue_id, file_path |-> file_path,
                         readable |-> FALSE]
             /\ wire' = <<>>
             /\ outcome' = Raise("FileNotFoundError", "")
             /\ UNCHANGED <<token, base_url, ctor, received, failure, normalized,
                   loaded, past, peer>>

\* authenticate as a token refresh that stores a new credential
authenticate_storing_token ==
    /\ pc = "idle"
    /\ pc' = "done"
    /\ op' = "authenticate"
    /\ args' = NoArgs
    /\ wire' = <<>>
    /\ outcome' = Return(JNull)
    /\ token' = "refreshed"
    /\ UNCHANGED <<base_url, ctor, received, failure, normalized,
                   loaded, past, peer>>

\* YouTrackClient.authenticate: a placeholder, its body is pass
authenticate ==
    /\ pc = "idle"
    /\ pc' = "done"
    /\ op' = "authenticate"
    /\ args' = NoArgs
    /\ wire' = <<>>
    /\ outcome' = Return(JNull)
    /\ UNCHANGED <<token, base_url, ctor, received, failure, normalized,
                   loaded, past, peer>>

\* YouTrackClient.list_issues
list_issues ==
    \E project_id \in ProjectIds,
       query \in Queries,
       limit \in Limits,
       skip \in Skips :
        Invoke("list_issues", [project_id |-> project_id, query |-> query, limit |-> limit, skip |-> skip],
            Request("GET",
                base_url \o "/api/issues?fields=id,summary,description&query=project:" \o project_id
                \o " " \o query \o "&$skip=" \o ToString(skip) \o "&$top=" \o ToString(limit),
                _headers, None, None))

\* YouTrackClient.search_issues
search_issues ==
    \E query \in Queries,
       limit \in Limits,
       skip \in Skips :
        Invoke("search_issues", [query |-> query, limit |-> limit, skip |-> skip],
            Request("GET",
                base_url \o "/api/issues?fields=id,summary,description&query=" \o query
                \o "&$skip=" \o ToString(skip) \o "&$top=" \o ToString(limit),
                _headers, None, None))

\* YouTrackClient.add_comment
add_comment ==
    \E issue_id \in IssueIds,
       text \in Strings :
        Invoke("add_comment", [issue_id |-> issue_id, text |-> text],
            Request("POST",
                base_url \o "/api/issues/" \o issue_id \o "/comments?fields=id,text,author",
                _headers, Some(JObj(<<Item("text", JStr(text))>>)), None))

\* YouTrackClient.transition_issue
transition_issue ==
    \E issue_id \in IssueIds,
       field_name \in {"State"},
       new_state \in {"Open", "Fixed"} :
        Invoke("transition_issue", [issue_id |-> issue_id, field_name |-> field_name, new_state |-> new_state],
            Request("POST",
                base_url \o "/api/issues/" \o issue_id \o "/fields/" \o field_name,
                _headers, Some(JObj(<<Item("name", JStr(field_name)),
                             Item("value", JObj(<<Item("name", JStr(new_state))>>))>>)), None))

\* YouTrackClient.get_issue_history
get_issue_history ==
    \E issue_id \in IssueIds :
        Invoke("get_issue_history", [issue_id |-> issue_id],
            Request("GET",
                base_url \o "/api/issues/" \o issue_id
                \o "/activities?fields=id,timestamp,author,added,removed",
                _headers, None, None))

\* YouTrackClient.list_workitems
list_workitems ==
    \E project_id \in ProjectIds,
       limit \in Limits,
       skip \in Skips :
        Invoke("list_workitems", [project_id |-> project_id, limit |-> limit, skip |-> skip],
            Request("GET",
                base_url \o "/api/issues?fields=id,summary,workItems(id,duration,author,date,description)&query=project:"
                \o project_id \o "&$skip=" \o ToString(skip) \o "&$top=" \o ToString(limit),
                _headers, None, None))

\* YouTrackClient.calculate_time_spent
calculate_time_spent ==
    \E issue_id \in IssueIds :
        Invoke("calculate_time_spent", [issue_id |-> issue_id],
            Request("GET",
                base_url \o "/api/issues/" \o issue_id \o "/timeTracking/workItems?fields=duration",
                _headers, None, None))

\* YouTrackClient.list_workitem_types
list_workitem_types ==
    \E project_id \in ProjectIds :
        Invoke("list_workitem_types", [project_id |-> project_id],
            Request("GET",
                base_url \o "/api/admin/projects/" \o project_id
                \o "/timetrackingsettings/workitemtypes?fields=id,name,localizedName",
                _headers, None, None))

\* YouTrackClient.add_spent_time
add_spent_time ==
    \E issue_id \in IssueIds,
       duration \in {30},
       workitem_type_id \in {"T1"},
       description \in Strings :
        Invoke("add_spent_time", [issue_id |-> issue_id, duration |-> duration, workitem_type_id |-> workitem_type_id, description |-> description],
            Request("POST",
                base_url \o "/api/issues/" \o issue_id
                \o "/timeTracking/workItems?fields=id,duration,description,type(id,name)",
                _headers, Some(JObj(<<Item("duration", JNum(duration)),
                             Item("description", JStr(description)),
                             Item("type", JObj(<<Item("id", JStr(workitem_type_id))>>))>>)), None))

\* YouTrackClient.list_projects
list_projects ==
    Invoke("list_projects", NoArgs,
        Request("GET",
                base_url \o "/api/admin/projects?fields=id,name,shortName",
                _headers, None, None))

\* YouTrackClient.get_issue
get_issue ==
    \E issue_id \in IssueIds :
        Invoke("get_issue", [issue_id |-> issue_id],
            Request("GET",
                base_url \o "/api/issues/" \o issue_id
                \o "?fields=id,summary,description,project(id,name)",
                _headers, None, None))

\* YouTrackClient.list_users
list_users ==
    \E query \in Queries,
       limit \in Limits,
       skip \in Skips :
        Invoke("list_users", [query |-> query, limit |-> limit, skip |-> skip],
            Request("GET",
                base_url \o "/api/users?fields=id,login,name,email&query=" \o query
                \o "&$skip=" \o ToString(skip) \o "&$top=" \o ToString(limit),
                _headers, None, None))

\* YouTrackClient.list_custom_fields
list_custom_fields ==
    \E project_id \in ProjectIds :
        Invoke("list_custom_fields", [project_id |-> project_id],
            Request("GET",
                base_url \o "/api/admin/projects/" \o project_id
                \o "/customfields?fields=id,name,fieldType(id,valueType)",
                _headers, None, None))

\* YouTrackClient.list_workflows
list_workflows ==
    Invoke("list_workflows", NoArgs,
        Request("GET",
                base_url \o "/api/workflows?fields=id,name,description",
                _headers, None, None))

\* YouTrackClient.list_boards
list_boards ==
    \E project_id \in {None, Some("")} \cup {Some(x) : x \in ProjectIds} :
        Invoke("list_boards", [project_id |-> project_id],
            Request("GET",
                base_url \o "/api/agiles?fields=id,name,projects(id,name)",
                _headers, None, None))

\* YouTrackClient.list_sprints
list_sprints ==
    \E board_id \in BoardIds :
        Invoke("list_sprints", [board_id |-> board_id],
            Request("GET",
                base_url \o "/api/agiles/" \o board_id
                \o "/sprints?fields=id,name,start,finish,isArchived",
                _headers, None, None))

\* YouTrackClient.list_user_stories
list_user_stories ==
    \E board_id \in BoardIds,
       sprint_id \in {None, Some("")} \cup {Some(x) : x \in SprintIds} :
        Invoke("list_user_stories", [board_id |-> board_id, sprint_id |-> sprint_id],
            Request("GET",
                base_url \o "/api/agiles/" \o board_id
                \o "/issues?fields=id,summary,customFields(id,name,value(name))"
                \o (IF IsNone(sprint_id) \/ Val(sprint_id) = ""       \* if sprint_id:
                    THEN "" ELSE "&sprint=" \o Val(sprint_id)),
                _headers, None, None))

\* YouTrackClient.add_issue_to_sprint
add_issue_to_sprint ==
    \E board_id \in BoardIds,
       sprint_id \in SprintIds,
       issue_id \in IssueIds :
        Invoke("add_issue_to_sprint", [board_id |-> board_id, sprint_id |-> sprint_id, issue_id |-> issue_id],
            Request("PUT",
                base_url \o "/api/agiles/" \o board_id \o "/sprints/" \o sprint_id
                \o "/issues/" \o issue_id,
                _headers, None, None))

\* YouTrackClient.add_issue_to_user_story
add_issue_to_user_story ==
    \E board_id \in BoardIds,
       user_story_id \in {"I-9"},
       issue_id \in IssueIds :
        Invoke("add_issue_to_user_story", [board_id |-> board_id, user_story_id |-> user_story_id, issue_id |-> issue_id],
            Request("PUT",
                base_url \o "/api/agiles/" \o board_id \o "/issues/" \o user_story_id
                \o "/subtasks/" \o issue_id,
                _headers, None, None))

\* YouTrackClient.add_user_story_to_sprint
add_user_story_to_sprint ==
    \E board_id \in BoardIds,
       sprint_id \in SprintIds,
       user_story_id \in {"I-9"} :
        Invoke("add_user_story_to_sprint", [board_id |-> board_id, sprint_id |-> sprint_id, user_story_id |-> user_story_id],
            Request("PUT",
                base_url \o "/api/agiles/" \o board_id \o "/sprints/" \o sprint_id
                \o "/issues/" \o user_story_id,
                _headers, None, None))

\* YouTrackClient.run_report
run_report ==
    \E report_id \in {"R1"} :
        Invoke("run_report", [report_id |-> report_id],
            Request("POST",
                base_url \o "/api/reports/" \o report_id \o "/execute",
                _headers, None, None))

\* YouTrackClient.get_deadline_calendars
get_deadline_calendars ==
    Invoke("get_deadline_calendars", NoArgs,
        Request("GET",
                base_url \o "/api/admin/calendars?fields=id,name,holidays",
                _headers, None, None))

\* YouTrackClient.get_issue_links
get_issue_links ==
    \E issue_id \in IssueIds :
        Invoke("get_issue_links", [issue_id |-> issue_id],
            Request("GET",
                base_url \o "/api/issues/" \o issue_id
                \o "/links?fields=id,direction,linkType(id,name,directed),issues(id,summary)",
                _headers, None, None))

\* YouTrackClient.list_issue_link_types
list_issue_link_types ==
    Invoke("list_issue_link_types", NoArgs,
        Request("GET",
                base_url \o "/api/issueLinkTypes?fields=id,name,directed",
                _headers, None, None))

\* YouTrackClient.list_issue_link_types_for_issue
list_issue_link_types_for_issue ==
    \E issue_id \in IssueIds :
        Invoke("list_issue_link_types_for_issue", [issue_id |-> issue_id],
            Request("GET",
                base_url \o "/api/issues/" \o issue_id \o "/links/types?fields=id,name,directed",
                _headers, None, None))

\* YouTrackClient.list_issue_link_types_for_project
list_issue_link_types_for_project ==
    \E project_id \in ProjectIds :
        Invoke("list_issue_link_types_for_project", [project_id |-> project_id],
            Request("GET",
                base_url \o "/api/admin/projects/" \o project_id
                \o "/issueLinkTypes?fields=id,name,directed",
                _headers, None, None))

\* YouTrackClient.add_issue_link
add_issue_link ==
    \E source_issue_id \in IssueIds,
       target_issue_id \in {"I-2"},
       link_type_id \in {"L1"} :
        Invoke("add_issue_link", [source_issue_id |-> source_issue_id, target_issue_id |-> target_issue_id, link_type_id |-> link_type_id],
            Request("PUT",
                base_url \o "/api/issues/" \o source_issue_id \o "/links/" \o link_type_id
                \o "/" \o target_issue_id,
                _headers, None, None))

\* YouTrackClient.run_query
run_query ==
    \E query \in Queries,
       fields \in FieldSets,
       limit \in Limits,
       skip \in Skips :
        Invoke("run_query", [query |-> query, fields |-> fields, limit |-> limit, skip |-> skip],
            Request("GET",
                base_url \o "/api/issues?fields=" \o fields \o "&query=" \o query
                \o "&$skip=" \o ToString(skip) \o "&$top=" \o ToString(limit),
                _headers, None, None))

----------------------------------------------------------------------------
(* The server.  Whatever the operation, it may answer with any status and  *)
(* any of these bodies; the time-tracking and board endpoints also answer  *)
(* with workitem and board lists.                                          *)

Statuses == {200, 201, 302, 400, 404, 500}

\* a dict built from the items that are present
Present(items) == JObj(SelectSeq(items, LAMBDA it : it.k # ""))
Absent == Item("", JNull)

ErrorDescriptions == {Absent} \cup
    {Item("error_description", v) : v \in {JStr(""), JStr("denied")}}
Messages == {Absent} \cup
    {Item("message", v) : v \in {JStr(""), JStr("fail"), JNull, JNum(7)}}

\* JSON objects with or without error_description and message
ErrorObjects == {Present(<<d, m>>) : d \in ErrorDescriptions, m \in Messages}

GenericBodies ==
    ErrorObjects
    \cup {JObj(<<Item("ok", JTrue)>>), JObj(<<Item("id", JStr("I-1"))>>)}
    \cup {JArr(<<>>), JArr(<<JStr("a")>>)}
    \cup {JNull, JNum(5), JStr("oops"), JFalse}

\* bodies that are no JSON document
TextBodies == {"", "Not Found", "<html>502</html>"}

WorkItems ==
    {JObj(<<>>), JObj(<<Item("duration", JNum(15))>>),
     JObj(<<Item("duration", JNum(30))>>), JObj(<<Item("duration", JNull)>>)}
WorkItemLists == {JArr(xs) : xs \in UNION {[1..n -> WorkItems] : n \in 0..MaxItems}}

Project(id) == JObj(<<Item("id", JStr(id))>>)
\* the projects of a board: no such key, or a list of projects
BoardProjects ==
    {<<>>} \cup {<<Item("projects", JArr(ps))>> :
                    ps \in {<<>>, <<Project("P1")>>, <<Project("P2")>>,
                            <<Project("P2"), Project("P1")>>}}
\* the i-th board of a list has id i
BoardList(ps) ==
    JArr([i \in 1..Len(ps) |-> JObj(<<Item("id", JStr(ToString(i)))>> \o ps[i])])
BoardLists ==
    {BoardList(ps) : ps \in UNION {[1..n -> BoardProjects] : n \in 0..MaxBoards}}

Bodies(o) ==
    GenericBodies
    \cup (IF o = "calculate_time_spent" THEN WorkItemLists ELSE {})
    \cup (IF o = "list_boards" THEN BoardLists ELSE {})

Responses(o) ==
    {JsonResponse(st, j) : st \in Statuses, j \in Bodies(o)}
    \cup {TextResponse(st, txt) : st \in Statuses, txt \in TextBodies}

----------------------------------------------------------------------------
(* The second half of every operation: the HTTP call returns or raises.    *)

\* what operation o does with the outcome h of _handle_response
complete(o, a, h) ==
    IF h.kind # "return" THEN h
    ELSE IF o = "calculate_time_spent" THEN time_spent_total(h.val)
    ELSE IF o = "list_boards" THEN boards_result(h.val, a.project_id)
    ELSE h

\* an operation that sends its request again after an error response
Respond_with_retry ==
    /\ pc = "waiting"
    /\ \E r \in Responses(op) :
        /\ received' = Some(r)
        /\ outcome' = complete(op, args, _handle_response(r))
        /\ wire' = IF raise_for_status(r) THEN wire \o wire ELSE wire
    /\ normalized' = TRUE
    /\ pc' = "done"
    /\ UNCHANGED <<token, base_url, ctor, op, args, failure, loaded, past, peer>>

\* the HTTP call returns a response: return self._handle_response(response)
Respond ==
    /\ pc = "waiting"
    /\ \E r \in Responses(op) :
        /\ received' = Some(r)
        /\ outcome' = complete(op, args, _handle_response(r))
    /\ normalized' = TRUE
    /\ pc' = "done"
    /\ UNCHANGED <<token, base_url, ctor, op, args, wire, failure, loaded,
                   past, peer>>

\* an operation that catches the HTTP layer's error and raises its own
TransportFailure_wrapped ==
    /\ pc = "waiting"
    /\ \E e \in TransportErrors :
        /\ failure' = e
        /\ outcome' = Raise("YouTrackError", "YouTrack API error: " \o e)
    /\ pc' = "done"
    /\ UNCHANGED <<token, base_url, ctor, op, args, wire, received, normalized,
                   loaded, past, peer>>

\* the HTTP call raises: nothing in the operation catches it
TransportFailure ==
    /\ pc = "waiting"
    /\ \E e \in TransportErrors :
        /\ failure' = e
        /\ outcome' = Raise(e, "")
    /\ pc' = "done"
    /\ UNCHANGED <<token, base_url, ctor, op, args, wire, received, normalized,
                   loaded, past, peer>>

\* what the client has been through once a call with outcome o is over
after(p, o) == IF o.kind = "raise" \/ p = "failed" THEN "failed" ELSE "used"

\* the caller has the result or the error; the call's locals are gone
caller_continues ==
    /\ pc = "done"
    /\ pc' = "idle"
    /\ op' = ""
    /\ args' = NoArgs
    /\ wire' = <<>>
    /\ received' = None
    /\ failure' = ""
    /\ normalized' = FALSE
    /\ outcome' = NoOutcome
    /\ past' = after(past, outcome)
    /\ UNCHANGED <<token, base_url, ctor, loaded, peer>>

----------------------------------------------------------------------------
(* Construction.                                                           *)

\* YouTrackClient(token, base_url)
construct ==
    /\ pc = "start"
    /\ \E t \in Tokens, u \in BaseUrls :
        /\ token' = __init__(t, u).token
        /\ base_url' = __init__(t, u).base_url
        /\ ctor' = [token |-> t, base_url |-> u]
        /\ args' = [token |-> t, base_url |-> u]
    /\ op' = "__init__"
    /\ pc' = "idle"
    /\ UNCHANGED <<wire, received, failure, normalized, outcome, loaded,
                   past, peer>>

\* YouTrackClient.from_config(config_path): cls(token, base_url), or the error
from_config ==
    /\ pc = "start"
    /\ \E config_path \in ConfigPaths, f \in ConfigFiles :
        LET r == load_config(config_path, f) IN
        /\ loaded' = r
        /\ args' = [config_path |-> config_path, file |-> f]
        /\ IF r.kind = "return"
           THEN /\ token' = r.client.token
                /\ base_url' = r.client.base_url
                /\ ctor' = r.client
                /\ pc' = "idle"
           ELSE /\ pc' = "failed"
                /\ UNCHANGED <<token, base_url, ctor>>
    /\ op' = "from_config"
    /\ UNCHANGED <<wire, received, failure, normalized, outcome, past, peer>>

\* the call of a caller that is between two operations
NoCall ==
    [pc |-> "idle", op |-> "", args |-> NoArgs, wire |-> <<>>,
     received |-> None, failure |-> "", normalized |-> FALSE,
     outcome |-> NoOutcome]

\* no second caller and no second client
Nobody ==
    [token |-> "", base_url |-> "", ctor |-> [token |-> "", base_url |-> ""],
     past |-> "fresh", call |-> NoCall]

Init ==
    /\ pc = "start"
    /\ token = ""
    /\ base_url = ""
    /\ ctor = [token |-> "", base_url |-> ""]
    /\ op = ""
    /\ args = NoArgs
    /\ wire = <<>>
    /\ received = None
    /\ failure = ""
    /\ normalized = FALSE
    /\ outcome = NoOutcome
    /\ loaded = NotLoaded
    /\ past = "fresh"
    /\ peer = Nobody

Next ==
    \/ construct
    \/ from_config
    \/ create_issue
    \/ list_issues
    \/ update_issue
    \/ search_issues
    \/ add_comment
    \/ transition_issue
    \/ attach_file
    \/ get_issue_history
    \/ list_workitems
    \/ calculate_time_spent
    \/ list_workitem_types
    \/ add_spent_time
    \/ list_projects
    \/ get_issue
    \/ list_users
    \/ list_custom_fields
    \/ list_workflows
    \/ list_boards
    \/ list_sprints
    \/ list_user_stories
    \/ add_issue_to_sprint
    \/ add_issue_to_user_story
    \/ add_user_story_to_sprint
    \/ run_report
    \/ authenticate
    \/ get_deadline_calendars
    \/ get_issue_links
    \/ list_issue_link_types
    \/ list_issue_link_types_for_issue
    \/ list_issue_link_types_for_project
    \/ add_issue_link
    \/ run_query
    \/ run_command
    \/ Respond
    \/ TransportFailure
    \/ caller_continues

Spec == Init /\ [][Next]_vars

----------------------------------------------------------------------------
(* Several callers of one client, and two clients side by side.  A call's  *)
(* state is the locals of the method that runs it; the instance holds only *)
(* token and base_url.                                                     *)

\* the client exists: the caller is between two operations or in one
Running == pc \in {"idle", "waiting", "done"}

\* the locals of the call the running caller is in
call ==
    [pc |-> pc, op |-> op, args |-> args, wire |-> wire,
     received |-> received, failure |-> failure, normalized |-> normalized,
     outcome |-> outcome]

\* the running caller goes on with the locals c
resume(c) ==
    /\ pc' = c.pc
    /\ op' = c.op
    /\ args' = c.args
    /\ wire' = c.wire
    /\ received' = c.received
    /\ failure' = c.failure
    /\ normalized' = c.normalized
    /\ outcome' = c.outcome

\* the answers of the server where two calls are under way
FewResponses ==
    {JsonResponse(200, JObj(<<Item("id", JStr("I-1"))>>)),
     JsonResponse(400, JObj(<<Item("error_description", JStr("denied"))>>)),
     TextResponse(404, "Not Found"),
     TextResponse(200, "")}

\* a client that keeps the response on the instance, where every call
\* waiting for one picks it up
RespondFew_on_instance ==
    /\ pc = "waiting"
    /\ \E r \in FewResponses :
        /\ received' = Some(r)
        /\ outcome' = complete(op, args, _handle_response(r))
        /\ peer' = IF peer.call.pc # "waiting" THEN peer
                   ELSE [peer EXCEPT !.call.pc = "done",
                                     !.call.received = Some(r),
                                     !.call.normalized = TRUE,
                                     !.call.outcome =
                                        complete(peer.call.op, peer.call.args,
                                                 _handle_response(r))]
    /\ normalized' = TRUE
    /\ pc' = "done"
    /\ UNCHANGED <<token, base_url, ctor, op, args, wire, failure, loaded, past>>

\* the HTTP call of the running caller returns a response
RespondFew ==
    /\ pc = "waiting"
    /\ \E r \in FewResponses :
        /\ received' = Some(r)
        /\ outcome' = complete(op, args, _handle_response(r))
    /\ normalized' = TRUE
    /\ pc' = "done"
    /\ UNCHANGED <<token, base_url, ctor, op, args, wire, failure, loaded,
                   past, peer>>

\* the scheduler runs the other caller of the same client instance
switch_caller ==
    /\ Running
    /\ resume(peer.call)
    /\ peer' = [peer EXCEPT !.call = call]
    /\ UNCHANGED <<token, base_url, ctor, loaded, past>>

NextShared ==
    \/ construct
    \/ add_comment
    \/ get_issue
    \/ RespondFew
    \/ TransportFailure
    \/ caller_continues
    \/ switch_caller

\* one client instance shared by two callers, under every interleaving
SpecShared == Init /\ [][NextShared]_vars

\* a second client: YouTrackClient(token, base_url)
construct_second ==
    /\ Running
    /\ peer = Nobody
    /\ \E t \in Tokens, u \in BaseUrls :
        peer' = [token |-> __init__(t, u).token,
                 base_url |-> __init__(t, u).base_url,
                 ctor |-> [token |-> t, base_url |-> u],
                 past |-> "fresh", call |-> NoCall]
    /\ UNCHANGED <<token, base_url, ctor, pc, op, args, wire, received,
                   failure, normalized, outcome, loaded, past>>

\* the program goes on with its other client
switch_client ==
    /\ Running
    /\ peer # Nobody
    /\ resume(peer.call)
    /\ token' = peer.token
    /\ base_url' = peer.base_url
    /\ ctor' = peer.ctor
    /\ past' = peer.past
    /\ peer' = [token |-> token, base_url |-> base_url, ctor |-> ctor,
                past |-> past, call |-> call]
    /\ UNCHANGED loaded

NextPair ==
    \/ construct
    \/ construct_second
    \/ add_comment
    \/ get_issue
    \/ RespondFew
    \/ TransportFailure
    \/ caller_continues
    \/ switch_client

\* two client instances, each with its own history of operations
SpecPair == Init /\ [][NextPair]_vars

----------------------------------------------------------------------------
(* Properties.                                                             *)

\* a client exists
Constructed == pc \in {"idle", "waiting", "done"}
\* the operation has finished on a response the HTTP layer delivered
Answered == pc = "done" /\ ~IsNone(received)
\* that response
Answer == Val(received)
ErrorPrefix == "YouTrack API error: "
IsObject(j) == j.t = "obj"
IsList(j) == j.t = "arr"

\* C1: a client constructed with token t and base URL u holds token = t and
\* base_url = u right after construction and in every state any sequence of
\* operations, successful or failing, leads to.
C1_CredentialsImmutable ==
    Constructed => token = ctor.token /\ base_url = ctor.base_url

\* C1 witness: an operation has failed on a client built with "abc".
C1_Witness ==
    /\ pc = "done" /\ op = "update_issue" /\ outcome.kind = "raise"
    /\ ctor = [token |-> "abc", base_url |-> "https://yt"]
    /\ token = "abc"

\* C2: on a 2xx response with a JSON body, _handle_response returns the
\* decoded body itself and raises nothing; an operation without
\* post-processing hands exactly that value to its caller.
C2_SuccessReturnsDecodedBody ==
    (Answered /\ Answer.status \in 200..299 /\ Answer.decodable) =>
        /\ _handle_response(Answer) = Return(Answer.decoded)
        /\ op \notin {"calculate_time_spent", "list_boards"}
                => outcome = Return(Answer.decoded)

\* C2 witness: status 200 with body {"ok": true} came back as {"ok": true}.
C2_Witness ==
    /\ Answered
    /\ Answer = JsonResponse(200, JObj(<<Item("ok", JTrue)>>))
    /\ outcome = Return(JObj(<<Item("ok", JTrue)>>))

\* C3: on a response with status >= 400, whatever the body, the operation
\* raises YouTrackError and returns no value; for a body {"message": m} the
\* error's message contains m.
C3_ErrorStatusRaises ==
    (Answered /\ Answer.status >= 400) =>
        /\ outcome.kind = "raise"
        /\ outcome.exc = "YouTrackError"
        /\ (Answer.decodable /\ IsObject(Answer.decoded)
              /\ Len(Answer.decoded.a) = 1 /\ Answer.decoded.a[1].k = "message")
                => Contains(outcome.msg, PyStr(Answer.decoded.a[1].v))

\* C3 witness: status 400 with body {"message": "fail"} raised an error whose
\* message contains "fail".
C3_Witness ==
    /\ Answered
    /\ Answer = JsonResponse(400, JObj(<<Item("message", JStr("fail"))>>))
    /\ outcome.exc = "YouTrackError"
    /\ Contains(outcome.msg, "fail")

\* an error response whose body decodes to a JSON object
ObjectError == Answered /\ Answer.status >= 400
                /\ Answer.decodable /\ IsObject(Answer.decoded)

\* C4 as stated: the message is the prefix followed by error_description
\* if the object has that field, else by message if the object has that
\* field, else by the stringified object; presence alone decides.
C4_Original ==
    ObjectError =>
        outcome.msg = ErrorPrefix \o
            (IF HasKey(Answer.decoded, "error_description")
             THEN PyStr(Lookup(Answer.decoded, "error_description"))
             ELSE IF HasKey(Answer.decoded, "message")
             THEN PyStr(Lookup(Answer.decoded, "message"))
             ELSE PyStr(Answer.decoded))

\* C4 amended: the message is the prefix followed by error_description if
\* the object has that field with a truthy value, else by message if the
\* object has that field with a truthy value, else by the stringified
\* object; a field that is absent, empty, null, zero or false is skipped.
C4_MessageExtractionOrder ==
    ObjectError =>
        LET d == Answer.decoded IN
        outcome.msg = ErrorPrefix \o
            (IF HasKey(d, "error_description") /\ Truthy(Lookup(d, "error_description"))
             THEN PyStr(Lookup(d, "error_description"))
             ELSE IF HasKey(d, "message") /\ Truthy(Lookup(d, "message"))
             THEN PyStr(Lookup(d, "message"))
             ELSE PyStr(d))

\* C4 witness: both fields present and non-empty, error_description won.
C4_Witness ==
    /\ ObjectError
    /\ Answer.decoded = JObj(<<Item("error_description", JStr("denied")),
                               Item("message", JStr("fail"))>>)
    /\ outcome.msg = "YouTrack API error: denied"

\* C5: on a response with status >= 400 whose body is no JSON document the
\* operation raises YouTrackError with the prefix followed by exactly the
\* raw response text.
C5_NonJsonErrorUsesRawText ==
    (Answered /\ Answer.status >= 400 /\ ~Answer.decodable) =>
        outcome = Raise("YouTrackError", ErrorPrefix \o Answer.text)

\* C5 witness: a 404 with the text "Not Found".
C5_Witness ==
    /\ Answered
    /\ Answer = TextResponse(404, "Not Found")
    /\ outcome.msg = "YouTrack API error: Not Found"

\* C6: every request an operation issues carries Authorization: Bearer
\* <token>; a request of an operation other than attach_file also carries
\* Accept and Content-Type application/json; the attach_file request
\* carries the Authorization header and no other.
C6_RequestHeaders ==
    \A i \in 1..Len(wire) :
        LET h == wire[i].headers IN
        /\ "Authorization" \in DOMAIN h
        /\ h["Authorization"] = "Bearer " \o token
        /\ IF op = "attach_file"
           THEN DOMAIN h = {"Authorization"}
           ELSE /\ {"Accept", "Content-Type"} \subseteq DOMAIN h
                /\ h["Accept"] = "application/json"
                /\ h["Content-Type"] = "application/json"

\* C6 witness: the attach_file request of a client with token "abc" is out.
C6_Witness ==
    /\ pc = "waiting" /\ op = "attach_file" /\ token = "abc"
    /\ wire[1].headers["Authorization"] = "Bearer abc"

\* the duration a workitem counts for: its duration field, 0 without one
Duration(wi) == IF HasKey(wi, "duration") THEN Lookup(wi, "duration").n ELSE 0
RECURSIVE TotalUpTo(_, _)
\* the durations of the first n workitems, each counted once
TotalUpTo(ws, n) == IF n = 0 THEN 0 ELSE TotalUpTo(ws, n - 1) + Duration(ws[n])
\* a list of workitems: dicts whose duration, where present, is a number
IsWorkItemList(j) ==
    /\ IsList(j)
    /\ \A i \in 1..Len(j.a) :
        /\ IsObject(j.a[i])
        /\ HasKey(j.a[i], "duration") => Lookup(j.a[i], "duration").t = "num"

\* C7: on a successful response holding a list of workitems,
\* calculate_time_spent returns the sum of the duration fields, every
\* workitem counted once and one without a duration counted as 0; 0 for
\* the empty list.
C7_TimeSpentIsSum ==
    (Answered /\ op = "calculate_time_spent" /\ Answer.status < 400
        /\ Answer.decodable /\ IsWorkItemList(Answer.decoded)) =>
        outcome = Return(JNum(TotalUpTo(Answer.decoded.a, Len(Answer.decoded.a))))

\* C7 witness: [{duration: 30}, {duration: 15}, {}] gave 45.
C7_Witness ==
    /\ Answered /\ op = "calculate_time_spent" /\ Answer.status = 200
    /\ Answer.decoded = JArr(<<JObj(<<Item("duration", JNum(30))>>),
                               JObj(<<Item("duration", JNum(15))>>),
                               JObj(<<>>)>>)
    /\ outcome = Return(JNum(45))

\* board b lists a project whose id is p
BoardHasProject(b, p) ==
    /\ HasKey(b, "projects")
    /\ \E i \in 1..Len(Lookup(b, "projects").a) :
        Lookup(Lookup(b, "projects").a[i], "id") = JStr(p)

\* a list of boards: dicts whose projects, where present, is a list of
\* dicts with an id
IsBoardList(j) ==
    /\ IsList(j)
    /\ \A i \in 1..Len(j.a) :
        /\ IsObject(j.a[i])
        /\ HasKey(j.a[i], "projects") =>
            /\ IsList(Lookup(j.a[i], "projects"))
            /\ \A k \in 1..Len(Lookup(j.a[i], "projects").a) :
                /\ IsObject(Lookup(j.a[i], "projects").a[k])
                /\ HasKey(Lookup(j.a[i], "projects").a[k], "id")

\* C8: list_boards issues one and the same GET for the full board list,
\* with no project in it.  With a project identifier p the result is the
\* sub-list, in server order, of the boards whose projects list holds an
\* entry with id = p (a board without a projects list is left out); with
\* no project filter the result is the server's list unchanged.
C8_BoardsFilteredClientSide ==
    (op = "list_boards" /\ pc \in {"waiting", "done"}) =>
        /\ wire = <<Request("GET",
                        base_url \o "/api/agiles?fields=id,name,projects(id,name)",
                        _headers, None, None)>>
        /\ (Answered /\ Answer.status < 400 /\ Answer.decodable) =>
            /\ IsNone(args.project_id) => outcome = Return(Answer.decoded)
            /\ (IsBoardList(Answer.decoded) /\ ~IsNone(args.project_id)
                    /\ Val(args.project_id) \in ProjectIds) =>
                outcome = Return(JArr(SelectSeq(Answer.decoded.a,
                            LAMBDA b : BoardHasProject(b, Val(args.project_id)))))

\* C8 witness: of boards 1 (project P1) and 2 (project P2), the filter P1
\* kept board 1 only.
C8_Witness ==
    /\ Answered /\ op = "list_boards" /\ args.project_id = Some("P1")
    /\ Answer.decoded = BoardList(<< <<Item("projects", JArr(<<Project("P1")>>))>>,
                                     <<Item("projects", JArr(<<Project("P2")>>))>> >>)
    /\ outcome = Return(JArr(<<Answer.decoded.a[1]>>))

\* the configuration file holds both keys of the youtrack section
WellFormedConfig(f) ==
    /\ f.exists /\ f.toml /\ f.section
    /\ \E i \in 1..Len(f.keys) : f.keys[i].k = "token"
    /\ \E i \in 1..Len(f.keys) : f.keys[i].k = "base_url"

\* C9 as stated: from_config on a file that is missing, malformed or lacks
\* a key fails with ConfigError, no HTTP request issued; on a well-formed
\* file it yields a client with the file's token and base URL.
C9_ConfigErrorType ==
    op = "from_config" =>
        IF WellFormedConfig(args.file)
        THEN /\ pc = "idle"
             /\ \E i \in 1..Len(args.file.keys) :
                    args.file.keys[i] = Item("token", token)
             /\ \E i \in 1..Len(args.file.keys) :
                    args.file.keys[i] = Item("base_url", base_url)
        ELSE /\ pc = "failed"
             /\ loaded.kind = "raise"
             /\ loaded.exc = "ConfigError"
             /\ wire = <<>>

\* the operation ran its request-building code: every operation except
\* attach_file on a file that open() rejects
ReachedRequest == ~(op = "attach_file" /\ ~args.readable)

\* the invocation issued exactly one request, and a failure of it reached
\* the caller as the raised error
OneRequestNoRetry ==
    /\ Len(wire) = 1
    /\ (pc = "done" /\ IsNone(received)) =>
            outcome.kind = "raise" /\ outcome.exc \in TransportErrors
    /\ (Answered /\ Answer.status >= 400) => outcome.kind = "raise"

\* C10 as stated: every invocation of a client operation (attach_file: with
\* a readable file) issues exactly one HTTP request before it returns or
\* raises, none after an error, and raises the failure to its caller.
C10_Original ==
    (pc = "done" /\ ReachedRequest) => OneRequestNoRetry

\* C10 amended: every invocation of a client operation other than the
\* authenticate placeholder (attach_file: with a readable file) issues
\* exactly one HTTP request before it returns or raises, none after an
\* error response or a transport failure, and raises the failure to its
\* caller; authenticate issues no request.
C10_OneRequestPerOperation ==
    /\ pc = "waiting" => Len(wire) = 1
    /\ (pc = "done" /\ ReachedRequest) =>
            IF op = "authenticate" THEN Len(wire) = 0 ELSE OneRequestNoRetry

\* C10 witness: an error response ended list_issues after one request.
C10_Witness ==
    /\ Answered /\ op = "list_issues" /\ Answer.status = 500
    /\ Len(wire) = 1 /\ outcome.exc = "YouTrackError"

\* C11: when the HTTP layer raises a transport failure, the operation
\* raises that same error to its caller, never a YouTrackError, and
\* _handle_response is not run.
C11_TransportErrorUnwrapped ==
    (pc = "done" /\ failure # "") =>
        /\ outcome = Raise(failure, "")
        /\ outcome.exc # "YouTrackError"
        /\ ~normalized
        /\ IsNone(received)

\* C11 witness: get_issue ended on a timeout of the HTTP layer.
C11_Witness ==
    /\ pc = "done" /\ op = "get_issue" /\ failure = "Timeout"
    /\ outcome.exc = "Timeout" /\ Len(wire) = 1

\* the JSON payload of the request the invocation issued
Payload == Val(wire[1].json)
\* the keys of a dict
Keys(d) == {d.a[i].k : i \in 1..Len(d.a)}
\* custom fields were passed: a dict holding at least one field
FieldsSupplied(custom_fields) ==
    ~IsNone(custom_fields) /\ Len(Val(custom_fields)) > 0

\* C12: the payload of update_issue holds exactly the supplied fields:
\* summary iff a summary was supplied, description iff a description was,
\* customFields iff custom fields (a mapping with at least one field)
\* were, each with the supplied value;
\* nothing supplied gives the empty payload, and an empty string supplied
\* as summary or description is sent.
C12_UpdateSendsSuppliedFields ==
    (op = "update_issue" /\ pc \in {"waiting", "done"}) =>
        /\ Keys(Payload) =
               (IF IsNone(args.summary) THEN {} ELSE {"summary"})
               \cup (IF IsNone(args.description) THEN {} ELSE {"description"})
               \cup (IF FieldsSupplied(args.custom_fields)
                     THEN {"customFields"} ELSE {})
        /\ ~IsNone(args.summary) =>
               Lookup(Payload, "summary") = JStr(Val(args.summary))
        /\ ~IsNone(args.description) =>
               Lookup(Payload, "description") = JStr(Val(args.description))
        /\ FieldsSupplied(args.custom_fields) =>
               Lookup(Payload, "customFields") = JObj(Val(args.custom_fields))

\* C12 witness: only an empty summary was supplied and only it was sent.
C12_Witness ==
    /\ op = "update_issue" /\ pc = "waiting"
    /\ args.summary = Some("") /\ IsNone(args.description)
    /\ IsNone(args.custom_fields)
    /\ Payload = JObj(<<Item("summary", JStr(""))>>)

\* C13 as stated: create_issue called without description, custom fields
\* and story points sends only the project and the summary; the payload
\* has no description key and no customFields key.
C13_OmittedDescriptionNotSent ==
    (op = "create_issue" /\ pc \in {"waiting", "done"}
        /\ IsNone(args.description) /\ IsNone(args.custom_fields)
        /\ IsNone(args.story_points)) =>
        Keys(Payload) = {"project", "summary"}

\* entry e of customFields stands for the caller's field k with value v
EntryFor(e, k, v) ==
    IF IsObject(v)
    THEN \A i \in 1..Len(v.a) : HasKey(e, v.a[i].k) /\ Lookup(e, v.a[i].k) = v.a[i].v
    ELSE e = JObj(<<Item("name", JStr(k)), Item("value", v)>>)

\* C14: with story_points supplied (0 included), customFields holds one
\* entry whose value is that number and one entry for every other custom
\* field the caller passed; with story_points not supplied, customFields
\* holds exactly one entry per field the caller passed and is absent when
\* there are none.
C14_StoryPointsMerged ==
    (op = "create_issue" /\ pc \in {"waiting", "done"}) =>
        LET passed == IF IsNone(args.custom_fields) THEN <<>>
                      ELSE Val(args.custom_fields)
            others == SelectSeq(passed, LAMBDA it : it.k # "Story points")
        IN  IF ~IsNone(args.story_points)
            THEN /\ HasKey(Payload, "customFields")
                 /\ LET L == Lookup(Payload, "customFields").a IN
                    /\ Len(L) = Len(others) + 1
                    /\ \E i \in 1..Len(L) :
                        /\ HasKey(L[i], "value")
                        /\ Lookup(L[i], "value") = JNum(Val(args.story_points))
                        /\ \A n \in 1..Len(others) : \E j \in 1..Len(L) :
                            j # i /\ EntryFor(L[j], others[n].k, others[n].v)
            ELSE IF Len(passed) = 0
            THEN ~HasKey(Payload, "customFields")
            ELSE /\ HasKey(Payload, "customFields")
                 /\ LET L == Lookup(Payload, "customFields").a IN
                    /\ Len(L) = Len(passed)
                    /\ \A n \in 1..Len(passed) :
                        EntryFor(L[n], passed[n].k, passed[n].v)

\* C14 witness: story_points 0 went out next to the caller's Priority.
C14_Witness ==
    /\ op = "create_issue" /\ pc = "waiting"
    /\ args.story_points = Some(0)
    /\ args.custom_fields = Some(<<Item("Priority", JStr("High"))>>)
    /\ Len(Lookup(Payload, "customFields").a) = 2
    /\ Lookup(Lookup(Payload, "customFields").a[2], "value") = JNum(0)

\* C15 as stated: list_issues with an empty query sends the filter
\* project:<id> with no trailing space; with a query q it sends
\* project:<id>, one space, q.
C15_NoTrailingSpace ==
    (op = "list_issues" /\ pc \in {"waiting", "done"}) =>
        wire[1].url =
            base_url \o "/api/issues?fields=id,summary,description&query="
                \o (IF args.query = "" THEN "project:" \o args.project_id
                    ELSE "project:" \o args.project_id \o " " \o args.query)
                \o "&$skip=" \o ToString(args.skip)
                \o "&$top=" \o ToString(args.limit)

\* C16 as stated: the payload of run_command holds the command under query
\* and the comment sub-object {text: comment} iff a comment string was
\* supplied.
C16_Original ==
    (op = "run_command" /\ pc \in {"waiting", "done"}) =>
        /\ Lookup(Payload, "query") = JStr(args.command)
        /\ HasKey(Payload, "comment") <=> ~IsNone(args.comment)

\* C16 amended: the payload of run_command holds the command under query
\* and the comment sub-object {text: comment} iff a non-empty comment
\* string was supplied; an empty comment is left out like no comment.
C16_CommentIffNonEmpty ==
    (op = "run_command" /\ pc \in {"waiting", "done"}) =>
        /\ Lookup(Payload, "query") = JStr(args.command)
        /\ IF ~IsNone(args.comment) /\ Val(args.comment) # ""
           THEN Payload = JObj(<<Item("query", JStr(args.command)),
                    Item("comment",
                         JObj(<<Item("text", JStr(Val(args.comment)))>>))>>)
           ELSE Keys(Payload) = {"query"}

\* C16 witness: the comment "text" went out as {text: "text"}.
C16_Witness ==
    /\ op = "run_command" /\ pc = "waiting" /\ args.comment = Some("text")
    /\ Lookup(Payload, "comment") = JObj(<<Item("text", JStr("text"))>>)

\* the request operation o builds from the arguments a of its caller
OwnRequest(o, a) ==
    IF o = "get_issue"
    THEN Request("GET",
            ctor.base_url \o "/api/issues/" \o a.issue_id
                \o "?fields=id,summary,description,project(id,name)",
            ("Authorization" :> ("Bearer " \o ctor.token))
                @@ ("Accept" :> "application/json")
                @@ ("Content-Type" :> "application/json"),
            None, None)
    ELSE Request("POST",
            ctor.base_url \o "/api/issues/" \o a.issue_id
                \o "/comments?fields=id,text,author",
            ("Authorization" :> ("Bearer " \o ctor.token))
                @@ ("Accept" :> "application/json")
                @@ ("Content-Type" :> "application/json"),
            Some(JObj(<<Item("text", JStr(a.text))>>)), None)

\* the call with locals c sent the request of its own arguments and ended
\* on its own response or transport failure
Independent(c) ==
    /\ c.pc \in {"waiting", "done"} => c.wire = <<OwnRequest(c.op, c.args)>>
    /\ c.pc = "waiting" => IsNone(c.received) /\ c.outcome = NoOutcome
    /\ c.pc = "done" =>
        IF IsNone(c.received)
        THEN c.failure \in TransportErrors /\ c.outcome = Raise(c.failure, "")
        ELSE c.outcome = complete(c.op, c.args, _handle_response(Val(c.received)))

\* C17: for two clients with the same token and base URL that have gone
\* through different histories of operations, failed ones included, the
\* same operation with the same arguments builds the same request, and on
\* the same response (or transport failure) gives the same result or error.
C17_Stateless ==
    (Running /\ peer # Nobody /\ token = peer.token /\ base_url = peer.base_url
        /\ pc \in {"waiting", "done"} /\ peer.call.pc \in {"waiting", "done"}
        /\ op = peer.call.op /\ args = peer.call.args) =>
        /\ wire = peer.call.wire
        /\ (pc = "done" /\ peer.call.pc = "done"
                /\ received = peer.call.received
                /\ failure = peer.call.failure) =>
            outcome = peer.call.outcome

\* C17 witness: a client with a failed call behind it and a fresh one have
\* sent the same add_comment and got the same response.
C17_Witness ==
    /\ peer # Nobody /\ token = peer.token /\ base_url = peer.base_url
    /\ past = "failed" /\ peer.past = "fresh"
    /\ pc = "done" /\ peer.call.pc = "done"
    /\ op = "add_comment" /\ peer.call.op = "add_comment"
    /\ args = peer.call.args
    /\ ~IsNone(received) /\ received = peer.call.received
    /\ outcome = peer.call.outcome

\* C18: with two callers running operations on one shared client under
\* every interleaving, token and base URL stay unchanged, each call sends
\* the request built from its own arguments and ends on the result or error
\* of its own response, and a step of one caller leaves the request,
\* response and outcome of the other caller's call as they were.
C18_CallsIndependent ==
    /\ [](Running =>
            /\ token = ctor.token /\ base_url = ctor.base_url
            /\ Independent(call)
            /\ Independent(peer.call))
    /\ [][\/ peer'.call = peer.call
          \/ peer'.call = call /\ call' = peer.call]_vars

\* C18 witness: get_issue has its result while the add_comment the other
\* caller started before it got an error.
C18_Witness ==
    /\ pc = "done" /\ op = "get_issue" /\ outcome.kind = "return"
    /\ peer.call.pc = "done" /\ peer.call.op = "add_comment"
    /\ peer.call.outcome.exc = "YouTrackError"
    /\ received # peer.call.received

\* C19 as stated: for an error response whose body decodes as JSON but is
\* no object with an error_description or message field (a list, a
\* primitive), the message is the stringified decoded body, not the raw
\* response text.
C19_NonObjectBodyStringified ==
    (Answered /\ Answer.status >= 400 /\ Answer.decodable
        /\ ~(IsObject(Answer.decoded)
                /\ (HasKey(Answer.decoded, "error_description")
                        \/ HasKey(Answer.decoded, "message")))) =>
        outcome.msg = ErrorPrefix \o PyStr(Answer.decoded)

\* C20 as stated: whatever an operation raises after a response was
\* received is a YouTrackError; on a response with status < 400 whose
\* body is empty or no JSON it returns a value or raises YouTrackError.
C20_OnlyApiErrors ==
    Answered => (outcome.kind = "return" \/ outcome.exc = "YouTrackError")

\* C21 as stated: in the payload of create_issue every customFields entry
\* is named after the key of the custom field it was built from, whether
\* the value was plain or a structured dict; the entry built from
\* story_points is named "Story points"; the caller's custom_fields
\* mapping is what it was before the call.
C21_EntriesNamedAfterKeys ==
    (op = "create_issue" /\ pc \in {"waiting", "done"}
        /\ HasKey(Payload, "customFields")) =>
        LET passed == IF IsNone(args.custom_fields) THEN <<>>
                      ELSE Val(args.custom_fields)
            L == Lookup(Payload, "customFields").a
        IN  /\ {Lookup(L[i], "name") : i \in 1..Len(L)} =
                   {JStr(passed[n].k) : n \in 1..Len(passed)}
                   \cup (IF IsNone(args.story_points) THEN {}
                         ELSE {JStr("Story points")})
            /\ ~IsNone(args.story_points) =>
                   \E i \in 1..Len(L) :
                       /\ Lookup(L[i], "name") = JStr("Story points")
                       /\ Lookup(L[i], "value") = JNum(Val(args.story_points))
            /\ args.custom_fields \in CustomFields

====
